---- MODULE Spec2Model ----
(***************************************************************************)
(* Token lifecycle and credential rotation of inexmanager.                 *)
(*                                                                         *)
(* Server side: AuthService (signup, forgotPassword, resetPassword,        *)
(* verifyAccount, refreshToken), the bearer-token guard and the token      *)
(* ledger (Token collection).  resetPassword and verifyAccount are split   *)
(* at their awaits on the database, so that two requests can interleave.   *)
(*                                                                         *)
(* Time is counted in seconds; jsonwebtoken stamps iat/exp in whole        *)
(* seconds, so two tokens signed for the same user within one second with  *)
(* the same secret and lifetime are the same string.  The clock advances   *)
(* in steps of TickStep.                                                   *)
(*                                                                         *)
(* Client side: the API client (apiRequest, makeRequest,                   *)
(* refreshAccessToken), the auth slice and the durable storage.  A call    *)
(* gives way to other calls exactly where the code awaits: the refresh     *)
(* promise, the fetch and the backoff sleep.  Storage is the synchronous   *)
(* localStorage of the web build.                                          *)
(***************************************************************************)
EXTENDS Integers, Sequences, FiniteSets, TLC

\* ---------------------------------------------------------------- bounds
TickStep == 1800
MaxTicks == 3
MaxLedger == 3
MaxResets == 7
NReq == 2
MaxCount == 2
MaxOutstanding == 1
NCalls == 2
MaxRefresh == 2
MaxSessions == 1
ClientStep == 600
MaxClientTicks == 2
MaxFaults == 4

\* ------------------------------------------------------ program constants
AccessTTL == 900
RefreshTTL == 604800
VerifyTTL == 86400
ResetTTL_TwoHours == 2 * 3600
ResetTTL == 3600
passwordHistorySize == 5
retries == 3
retryDelay == 1000
RefreshThreshold == 300
ExpiryBuffer == 60


\* inputs
RawEmails == {"a@x.com", "A@x.com", "b@x.com"}
SignupEmails == {"a@x.com", "A@x.com"}
Passwords == {"pw1", "pw2"}
HistoryPasswords == {"pw1", "pw2", "pw3", "pw4"}
Salts == {1}
Secrets == {"", "k1", "k2"}

VARIABLES
  now,       \* the server clock, seconds
  users,     \* User collection: lowercased email -> document
  ledger,    \* Token collection: set of documents
  nextTid,   \* next _id of the Token collection
  issued,    \* token string the server handed out -> the kinds it was minted as
  consumed,  \* token string -> number of resetPassword/verifyAccount successes
  gens,      \* per user, the plaintext passwords set so far, oldest first
  reqs,      \* resetPassword/verifyAccount requests in flight
  resp,      \* the response the server sent last
  env,       \* the server's environment: the two signing secrets
  client,    \* the app: auth slice, durable storage, isRefreshing, refreshPromise
  refreshes, \* the promises refreshAccessToken returned, in order of creation
  calls      \* the app's apiRequest calls

clientVars == <<client, refreshes, calls>>
serverVars == <<users, ledger, nextTid, issued, consumed, gens, reqs, resp, env>>
vars == <<now, users, ledger, nextTid, issued, consumed, gens, reqs, resp, env,
          client, refreshes, calls>>

\* ------------------------------------------------------------ environment
Envs == [JWT_SECRET : Secrets, JWT_REFRESH_SECRET : Secrets]
DefaultEnv == [JWT_SECRET |-> "k1", JWT_REFRESH_SECRET |-> "k2"]

validateEnv_AllowEqual(e) ==
  /\ e.JWT_SECRET # ""
  /\ e.JWT_REFRESH_SECRET # ""

\* both secrets are set, and they differ
validateEnv(e) ==
  /\ e.JWT_SECRET # ""
  /\ e.JWT_REFRESH_SECRET # ""
  /\ e.JWT_SECRET # e.JWT_REFRESH_SECRET

\* configService.get('JWT_SECRET'), configService.get('JWT_REFRESH_SECRET')
JWT_SECRET == env.JWT_SECRET
JWT_REFRESH_SECRET == env.JWT_REFRESH_SECRET

\* ------------------------------------------------------------ Token Codec
NoToken == [secret |-> "none", userId |-> 0, email |-> "", iat |-> 0, exp |-> 0]
Garbage == [secret |-> "garbage", userId |-> 0, email |-> "", iat |-> 0, exp |-> 0]

\* jwt.sign({userId, email}, secret, {expiresIn})
JwtSign(uid, email, secret, ttl, t) ==
  [secret |-> secret, userId |-> uid, email |-> email, iat |-> t, exp |-> t + ttl]

\* jwt.verify(token, secret): the signature matches and exp has not passed
JwtVerify(tok, secret, t) ==
  /\ tok.secret = secret
  /\ t < tok.exp

generateToken(uid, email, t) == JwtSign(uid, email, JWT_SECRET, AccessTTL, t)

generateRefreshToken(uid, email, t) ==
  JwtSign(uid, email, JWT_REFRESH_SECRET, RefreshTTL, t)

\* token string tok was handed out as a token of this kind
Mint(m, tok, kind) ==
  IF tok \in DOMAIN m THEN [m EXCEPT ![tok] = @ \cup {kind}]
  ELSE m @@ (tok :> {kind})

\* ------------------------------------------------------ Credential Hasher
Hash(pw, salt) == [plain |-> pw, salt |-> salt]

Compare(pw, h) == h.plain = pw

\* ------------------------------------------------------------------ users
Lower(e) == IF e = "A@x.com" THEN "a@x.com" ELSE e

NoUser == [id |-> 0, email |-> "", password |-> Hash("", 0),
           passwordHistory |-> <<>>, isVerified |-> FALSE]

\* Array.prototype.slice(-n)
LastN(s, n) == IF Len(s) <= n THEN s ELSE SubSeq(s, Len(s) - n + 1, Len(s))

PasswordReused_Last4(u, pw) ==
  LET recent == LastN(u.passwordHistory, passwordHistorySize - 1)
  IN  \E i \in DOMAIN recent : Compare(pw, recent[i])

\* the reuse check of resetPassword
PasswordReused(u, pw) ==
  LET recent == LastN(u.passwordHistory, passwordHistorySize)
  IN  \E i \in DOMAIN recent : Compare(pw, recent[i])

SavedUser_KeepOldest(db, snap, hashed) ==
  LET pushed == Append(snap.passwordHistory, snap.password)
  IN  [db EXCEPT
         !.password = hashed,
         !.passwordHistory =
            IF Len(pushed) > passwordHistorySize
              THEN SubSeq(pushed, 1, passwordHistorySize)
              ELSE Append(db.passwordHistory, snap.password)]

\* what user.save() writes: password is $set; passwordHistory is $push-ed onto
\* the stored array, unless the in-memory array was re-assigned by slice(-5),
\* in which case the whole array is $set from the document read earlier
SavedUser(db, snap, hashed) ==
  LET pushed == Append(snap.passwordHistory, snap.password)
  IN  [db EXCEPT
         !.password = hashed,
         !.passwordHistory =
            IF Len(pushed) > passwordHistorySize
              THEN LastN(pushed, passwordHistorySize)
              ELSE Append(db.passwordHistory, snap.password)]

\* ----------------------------------------------------------------- ledger
\* a lookup by token string alone: tokenModel.findOne({token, used: false})
FindTokens_AnyType(tok, type) ==
  {e \in ledger : e.token = tok /\ e.used = FALSE}

\* tokenModel.findOne({token, type, used: false})
FindTokens(tok, type) ==
  {e \in ledger : e.token = tok /\ e.type = type /\ e.used = FALSE}

NewEntry(id, tok, type, uid, t, ttl) ==
  [id |-> id, token |-> tok, type |-> type, userId |-> uid, used |-> FALSE,
   expiresAt |-> t + ttl, usedAt |-> -1]

\* tokenRecord.used = true; tokenRecord.usedAt = new Date(); save()
MarkUsed(l, id, t) ==
  {IF e.id = id THEN [e EXCEPT !.used = TRUE, !.usedAt = t] ELSE e : e \in l}

\* --------------------------------------------------------------- requests
ReqIds == 1 .. NReq

\* a request in flight: its inputs, its position, the documents it holds, and
\* what the database held for its token and user when it arrived
IdleReq == [op |-> "none", pc |-> "idle", token |-> NoToken, pw |-> "",
            rec |-> 0, recExpiresAt |-> 0, snap |-> NoUser, replay |-> FALSE,
            startedAt |-> 0, preUser |-> NoUser, preEntries |-> {},
            prior |-> <<>>]

\* the user object a response carries: every field of the document is passed
userResponse_WholeDocument(user) == user

\* the user object a response carries: _id, email and isVerified of the
\* document (name, profilePath, currency and createdAt are not modelled)
userResponse(user) ==
  [id |-> user.id, email |-> user.email, isVerified |-> user.isVerified]

NoResp == [op |-> "none", status |-> "", email |-> "", arg |-> NoToken,
           pw |-> "", replay |-> FALSE, startedAt |-> 0, preUser |-> NoUser,
           preEntries |-> {}, prior |-> <<>>, token |-> NoToken,
           refreshToken |-> NoToken, created |-> FALSE, raw |-> "",
           message |-> "",
           user |-> userResponse(NoUser)]

Free(r) == reqs[r].pc = "idle"

UserOf(email) == IF email \in DOMAIN users THEN users[email] ELSE NoUser

\* the passwords of a user before the current one, oldest first
PriorOf(email) ==
  IF email \in DOMAIN gens THEN SubSeq(gens[email], 1, Len(gens[email]) - 1)
  ELSE <<>>

\* a request as it arrives
Arrive(op, tok, pw) ==
  [IdleReq EXCEPT !.op = op, !.token = tok, !.pw = pw,
                  !.replay = (tok \in DOMAIN consumed), !.startedAt = now,
                  !.preUser = UserOf(tok.email),
                  !.preEntries = {e \in ledger : e.token = tok}]

\* the response of a resetPassword/verifyAccount request
Reply(q, status) ==
  [NoResp EXCEPT !.op = q.op, !.status = status, !.email = q.token.email,
                 !.arg = q.token, !.pw = q.pw, !.replay = q.replay,
                 !.startedAt = q.startedAt, !.preUser = q.preUser,
                 !.preEntries = q.preEntries, !.prior = q.prior]

\* one more successful consumption of token string tok (counted up to MaxCount)
Consume(c, tok) ==
  IF tok \in DOMAIN c
    THEN [c EXCEPT ![tok] = IF @ < MaxCount THEN @ + 1 ELSE @]
    ELSE c @@ (tok :> 1)

\* ================================================================ client
\* ------------------------------------------------------------ utils/token
\* decodeToken: the payload of a well-formed JWT (the signature is not checked)
Decodable(tok) == tok.secret \notin {"none", "garbage"} /\ tok.exp # 0

\* isTokenExpired(token, bufferSeconds = 60)
isTokenExpired(tok, t) ==
  IF tok = NoToken THEN TRUE
  ELSE IF ~Decodable(tok) THEN TRUE
  ELSE t + ExpiryBuffer >= tok.exp

\* a threshold test that leaves out the boundary
shouldRefreshToken_Strict(tok, t) ==
  IF tok = NoToken THEN FALSE
  ELSE IF ~Decodable(tok) THEN TRUE
  ELSE tok.exp - t < RefreshThreshold

\* shouldRefreshToken(token, refreshThresholdSeconds = 300)
shouldRefreshToken(tok, t) ==
  IF tok = NoToken THEN FALSE
  ELSE IF ~Decodable(tok) THEN TRUE
  ELSE tok.exp - t <= RefreshThreshold

\* ------------------------------------------------------------ utils/errors
\* categorizeError + isRetryableError, by what makeRequest threw
isRetryableError(failure) == failure \in {"neterr", "timeout", "500", "429"}

ErrorType(failure) ==
  CASE failure = "neterr" -> "NETWORK"
    [] failure = "timeout" -> "TIMEOUT"
    [] failure \in {"500", "429"} -> "SERVER"
    [] failure \in {"401", "403"} -> "AUTHENTICATION"
    [] OTHER -> "CLIENT"

\* -------------------------------------------------------------- authSlice
EmptyStorage == [user |-> "none", token |-> NoToken, refreshToken |-> NoToken]

initialState ==
  [user |-> "none", token |-> NoToken, refreshToken |-> NoToken,
   isAuthenticated |-> FALSE, storage |-> EmptyStorage,
   isRefreshing |-> FALSE, refreshPromise |-> 0, sessions |-> 0, faults |-> 0]

LogoutState_KeepStorage(cl) ==
  [cl EXCEPT !.user = "none", !.token = NoToken, !.refreshToken = NoToken,
             !.isAuthenticated = FALSE]

\* reducers.logout, storage.clearAll() included
LogoutState(cl) ==
  [cl EXCEPT !.user = "none", !.token = NoToken, !.refreshToken = NoToken,
             !.isAuthenticated = FALSE, !.storage = EmptyStorage]

\* reducers.loadCredentials
LoadedState(cl, stored) ==
  [cl EXCEPT !.user = stored.user, !.token = stored.token,
             !.refreshToken = stored.refreshToken,
             !.isAuthenticated = (stored.token # NoToken)]

\* refreshToken.fulfilled, storage.saveToken/saveRefreshToken included
FulfilledState(cl, data) ==
  [cl EXCEPT !.token = data.token, !.refreshToken = data.refreshToken,
             !.storage.token = data.token,
             !.storage.refreshToken = data.refreshToken]

\* what the device may hold when the app starts
StoredCredentials ==
  LET e == "a@x.com"
  IN  [user : {"u1"},
       token : {NoToken, Garbage, generateToken(1, e, 0)},
       refreshToken : {NoToken, generateRefreshToken(1, e, 0),
                       generateRefreshToken(1, e, 0 - RefreshTTL),
                       JwtSign(1, e, "rotated", RefreshTTL, 0)}]

\* AuthGuard.checkAuthStatus: the stored credentials are loaded unless both
\* tokens are expired; a token that is not expired is verified with the server
checkAuthStatus(stored, verified) ==
  LET held == [client EXCEPT !.storage = stored, !.sessions = @ + 1]
      cleared == LoadedState([held EXCEPT !.storage = EmptyStorage], EmptyStorage)
      loaded == LoadedState(held, stored)
  IN  /\ client.sessions < MaxSessions
      /\ client' =
           IF stored.token = NoToken THEN LoadedState(held, EmptyStorage)
           ELSE IF isTokenExpired(stored.token, now)
             THEN IF isTokenExpired(stored.refreshToken, now) THEN cleared
                  ELSE loaded
             ELSE IF verified THEN [loaded EXCEPT !.isAuthenticated = TRUE]
                  ELSE LogoutState(loaded)
      /\ UNCHANGED <<now, refreshes, calls, serverVars>>

\* the network loses or fails a request (at most MaxFaults times in a run)
Faulty(outcome) == outcome \in {"500", "429", "neterr", "timeout"}
CountFault(cl, outcome) ==
  IF Faulty(outcome) THEN [cl EXCEPT !.faults = @ + 1] ELSE cl

\* ------------------------------------------------------ refreshAccessToken
InFlight_Never(cl) == FALSE

\* if (isRefreshing && refreshPromise)
InFlight(cl) == cl.isRefreshing /\ cl.refreshPromise # 0

\* a promise refreshAccessToken returned
Pending(presented, c) ==
  [state |-> "pending", value |-> NoToken, presented |-> presented,
   pc |-> "fetch", attempt |-> 0, sent |-> 1, waiters |-> {c},
   failure |-> "", after |-> initialState]

Failed(e, why, cl) ==
  [e EXCEPT !.state = "resolved", !.value = NoToken, !.pc = "done",
            !.failure = why, !.after = cl]

\* refreshAccessToken gave up before sending anything
GaveUp(why, c, cl) == [Failed(Pending(cl.refreshToken, c), why, LogoutState(cl))
                         EXCEPT !.sent = 0]

\* the part of refreshAccessToken that runs before its caller awaits: the
\* client state, the promises and the promise handed to caller c
refreshAccessToken(cl, rs, c, t) ==
  LET id == Len(rs) + 1
      idle == [cl EXCEPT !.isRefreshing = FALSE, !.refreshPromise = 0]
  IN  IF InFlight(cl)
        THEN [client |-> cl, promise |-> cl.refreshPromise,
              refreshes |-> [rs EXCEPT ![cl.refreshPromise].waiters = @ \cup {c}]]
      ELSE IF cl.refreshToken = NoToken
        THEN [client |-> LogoutState(idle), promise |-> id,
              refreshes |-> Append(rs, GaveUp("missing", c, idle))]
      ELSE IF isTokenExpired(cl.refreshToken, t)
        THEN [client |-> LogoutState(idle), promise |-> id,
              refreshes |-> Append(rs, GaveUp("expired", c, idle))]
      ELSE [client |-> [cl EXCEPT !.isRefreshing = TRUE, !.refreshPromise = id],
            promise |-> id,
            refreshes |-> Append(rs, Pending(cl.refreshToken, c))]

RefreshData_KeepRefreshToken(tok, t) ==
  [token |-> generateToken(tok.userId, tok.email, t), refreshToken |-> tok]

\* the data of a successful AuthService.refreshToken: a new pair signed for
\* the decoded userId and email
RefreshData(tok, t) ==
  [token |-> generateToken(tok.userId, tok.email, t),
   refreshToken |-> generateRefreshToken(tok.userId, tok.email, t)]

\* the refresh request is answered (served by the server, or lost on the way)
RefreshRespond(i, outcome) ==
  LET e == refreshes[i]
      net == CountFault(client, outcome)
      idle == [net EXCEPT !.isRefreshing = FALSE, !.refreshPromise = 0]
      accepted == outcome = "served" /\ JwtVerify(e.presented, JWT_REFRESH_SECRET, now)
      data == RefreshData(e.presented, now)
  IN  /\ e.pc = "fetch"
      /\ Faulty(outcome) => client.faults < MaxFaults
      /\ IF accepted
           THEN /\ client' = FulfilledState(idle, data)
                /\ refreshes' = [refreshes EXCEPT ![i] =
                      [e EXCEPT !.state = "resolved", !.value = data.token,
                                !.pc = "done"]]
         ELSE IF isRetryableError(outcome) /\ e.attempt < retries
           THEN /\ refreshes' = [refreshes EXCEPT ![i] =
                      [e EXCEPT !.attempt = @ + 1, !.pc = "sleep"]]
                /\ client' = net
         ELSE /\ client' = LogoutState(idle)
              /\ refreshes' = [refreshes EXCEPT ![i] =
                    Failed(e, IF outcome = "served" THEN "rejected"
                              ELSE "unavailable", LogoutState(idle))]
      /\ UNCHANGED <<now, calls, serverVars>>

\* the backoff is over: the refresh request is sent again
RefreshRetry(i) ==
  /\ refreshes[i].pc = "sleep"
  /\ refreshes' = [refreshes EXCEPT ![i].pc = "fetch", ![i].sent = @ + 1]
  /\ UNCHANGED <<now, client, calls, serverVars>>

\* -------------------------------------------------------------- apiRequest
CallIds == 1 .. NCalls

IdleCall ==
  [pc |-> "idle", skipRefresh |-> FALSE, attempt |-> 0, accessToken |-> NoToken,
   header |-> NoToken, promise |-> 0, expired |-> FALSE, last401 |-> FALSE,
   result |-> "", n401 |-> 0, nRetry |-> 0, nRefresh |-> 0, delay |-> 0]

Done(q, result) == [q EXCEPT !.pc = "done", !.result = result]

\* a delay that grows by retryDelay with every retry
Backoff_Linear(attempt) == retryDelay * attempt

\* retryDelay * Math.pow(2, attempt - 1)
Backoff(attempt) == retryDelay * 2 ^ (attempt - 1)

\* a catch block that goes round again whatever the number of attempts
Thrown_NoLimit(q, failure) ==
  IF isRetryableError(failure)
    THEN [q EXCEPT !.attempt = @ + 1, !.pc = "sleep",
                   !.delay = Backoff(q.attempt + 1)]
    ELSE Done(q, ErrorType(failure))

\* apiRequest's catch block: wait and go round again, or give up
Thrown(q, failure) ==
  IF isRetryableError(failure) /\ q.attempt < retries
    THEN [q EXCEPT !.attempt = @ + 1, !.pc = "sleep",
                   !.delay = Backoff(q.attempt + 1)]
    ELSE Done(q, ErrorType(failure))

RetrySkipRefresh_Off == FALSE

\* the options of the retry after a refresh: skipRefresh: true
RetrySkipRefresh == TRUE

\* makeRequest up to its first await, for the call q of caller c: the proactive
\* refresh is awaited, or the request is sent
makeRequest(q, c, cl, rs, t) ==
  LET accessToken == cl.token
      near == shouldRefreshToken(accessToken, t)
      refresh == /\ accessToken # NoToken
                 /\ ~q.skipRefresh
                 /\ (near \/ isTokenExpired(accessToken, t))
      r == refreshAccessToken(cl, rs, c, t)
  IN  IF refresh
        THEN [client |-> r.client, refreshes |-> r.refreshes,
              call |-> [q EXCEPT !.pc = "awaitProactive", !.promise = r.promise,
                                 !.accessToken = accessToken, !.expired = ~near,
                                 !.nRefresh = @ + 1]]
        ELSE [client |-> cl, refreshes |-> rs,
              call |-> [q EXCEPT !.pc = "fetch", !.accessToken = accessToken,
                                 !.header = accessToken]]

\* an attempt of apiRequest's loop begins: makeRequest runs to its first await
Attempt(c, q) ==
  LET m == makeRequest(q, c, client, refreshes, now)
  IN  /\ Len(m.refreshes) <= MaxRefresh
      /\ client' = m.client
      /\ refreshes' = m.refreshes
      /\ calls' = [calls EXCEPT ![c] = m.call]

\* an authenticated call is made: apiRequest(endpoint) with default options
StartCall(c) ==
  /\ calls[c].pc = "idle"
  /\ Attempt(c, calls[c])
  /\ UNCHANGED <<now, serverVars>>

\* the awaited proactive refresh has settled
AwaitProactive(c) ==
  LET q == calls[c]
      newToken == refreshes[q.promise].value
  IN  /\ q.pc = "awaitProactive"
      /\ refreshes[q.promise].state = "resolved"
      /\ calls' = [calls EXCEPT ![c] =
           IF newToken # NoToken
             THEN [q EXCEPT !.pc = "fetch", !.accessToken = newToken,
                            !.header = newToken]
           ELSE IF q.expired \/ isTokenExpired(q.accessToken, now)
             THEN Done(q, "Token expired and refresh failed")
           ELSE [q EXCEPT !.pc = "fetch", !.header = q.accessToken]]
      /\ UNCHANGED <<now, client, refreshes, serverVars>>

\* the response to the fetch arrives, or the fetch fails
Respond(c, outcome) ==
  LET q == [calls[c] EXCEPT !.last401 = (outcome = "401")]
      r == refreshAccessToken(client, refreshes, c, now)
  IN  /\ q.pc = "fetch"
      /\ Faulty(outcome) => client.faults < MaxFaults
      /\ IF outcome = "401" /\ ~q.skipRefresh
           THEN /\ Len(refreshes) < MaxRefresh
                /\ client' = r.client
                /\ refreshes' = r.refreshes
                /\ calls' = [calls EXCEPT ![c] =
                      [q EXCEPT !.pc = "await401", !.promise = r.promise,
                                !.n401 = @ + 1, !.nRefresh = @ + 1]]
           ELSE /\ calls' = [calls EXCEPT ![c] =
                      IF outcome = "200" THEN Done(q, "ok")
                      ELSE IF outcome = "401" THEN Done(q, "http401")
                      ELSE Thrown(q, outcome)]
                /\ client' = CountFault(client, outcome)
                /\ UNCHANGED refreshes
      /\ UNCHANGED <<now, serverVars>>

\* the refresh awaited after a 401 has settled: retry once, or fail
Await401(c) ==
  LET q == calls[c]
      newToken == refreshes[q.promise].value
  IN  /\ q.pc = "await401"
      /\ refreshes[q.promise].state = "resolved"
      /\ IF newToken # NoToken
           THEN Attempt(c, [q EXCEPT !.skipRefresh = RetrySkipRefresh,
                                     !.attempt = 0, !.last401 = FALSE,
                                     !.delay = 0,
                                     !.nRetry = @ + 1])
           ELSE /\ calls' = [calls EXCEPT ![c] = Thrown(q, "401")]
                /\ UNCHANGED <<client, refreshes>>
      /\ UNCHANGED <<now, serverVars>>

\* sleep(delay) is over: the next attempt of the retry loop
Sleep(c) ==
  /\ calls[c].pc = "sleep"
  /\ Attempt(c, calls[c])
  /\ UNCHANGED <<now, serverVars>>

\* the device clock
ClientTick ==
  /\ now + ClientStep <= MaxClientTicks * ClientStep
  /\ now' = now + ClientStep
  /\ UNCHANGED <<clientVars, serverVars>>

\* ------------------------------------------------------------------- Init
InitWith(envs) ==
  /\ env \in envs
  /\ client = initialState
  /\ refreshes = <<>>
  /\ calls = [c \in CallIds |-> IdleCall]
  /\ now = 0
  /\ users = <<>>
  /\ ledger = {}
  /\ nextTid = 1
  /\ issued = <<>>
  /\ consumed = <<>>
  /\ gens = <<>>
  /\ reqs = [r \in ReqIds |-> IdleReq]
  /\ resp = NoResp

Init == InitWith({DefaultEnv})

\* ----------------------------------------------------------------- clock
Tick ==
  /\ now + TickStep <= MaxTicks * TickStep
  /\ now' = now + TickStep
  /\ UNCHANGED <<users, ledger, nextTid, issued, consumed, gens, reqs, resp, env, clientVars>>

\* ----------------------------------------------------------------- signup
signup(raw, pw, salt, cap) ==
  LET email == Lower(raw)
      uid == Cardinality(DOMAIN users) + 1
      hashed == Hash(pw, salt)
      token == generateToken(uid, email, now)
      refreshToken == generateRefreshToken(uid, email, now)
      verifyToken == JwtSign(uid, email, JWT_SECRET, VerifyTTL, now)
  IN  /\ nextTid <= cap
      /\ IF email \in DOMAIN users
           THEN /\ resp' = [NoResp EXCEPT !.op = "signup", !.status = "Conflict",
                                          !.email = email, !.raw = raw,
                                          !.pw = pw, !.startedAt = now]
                /\ UNCHANGED <<users, ledger, nextTid, issued, gens>>
           ELSE /\ users' = users @@ (email :>
                      [id |-> uid, email |-> email, password |-> hashed,
                       passwordHistory |-> <<hashed>>, isVerified |-> FALSE])
                /\ ledger' = ledger \cup
                      {NewEntry(nextTid, verifyToken, "email-verification", uid,
                                now, VerifyTTL)}
                /\ nextTid' = nextTid + 1
                /\ issued' = Mint(Mint(Mint(issued, token, "access"),
                                        refreshToken, "refresh"),
                                   verifyToken, "email-verification")
                /\ gens' = gens @@ (email :> <<pw>>)
                /\ resp' = [NoResp EXCEPT !.op = "signup", !.status = "ok",
                                          !.email = email, !.raw = raw,
                                          !.pw = pw, !.startedAt = now,
                                          !.token = token,
                                          !.refreshToken = refreshToken,
                                          !.user = userResponse(users'[email]),
                                          !.created = TRUE]
      /\ UNCHANGED <<now, consumed, reqs, env, clientVars>>

\* ------------------------------------------- signup, one await at a time
\* userModel.findOne({ email: email.toLowerCase() }), then bcrypt.hash
SignupFindUser(r, raw, pw, salt) ==
  LET email == Lower(raw)
  IN  /\ Free(r)
      /\ IF email \in DOMAIN users
           THEN /\ resp' = [NoResp EXCEPT !.op = "signup", !.status = "Conflict",
                                          !.email = email, !.startedAt = now,
                                          !.preUser = UserOf(email)]
                /\ UNCHANGED reqs
           ELSE /\ reqs' = [reqs EXCEPT ![r] =
                      [IdleReq EXCEPT !.op = "signup", !.pc = "saveUser",
                                      !.pw = pw, !.startedAt = now,
                                      !.snap = [NoUser EXCEPT
                                         !.email = email,
                                         !.password = Hash(pw, salt),
                                         !.passwordHistory = <<Hash(pw, salt)>>]]]
                /\ UNCHANGED resp
      /\ UNCHANGED <<now, users, ledger, nextTid, issued, consumed, gens, env, clientVars>>

\* user.save() under the unique index on email: a second document with the
\* same email is refused with a duplicate-key error, which the catch block
\* turns into AppException(500)
SignupSaveUser(r) ==
  LET q == reqs[r]
      email == q.snap.email
      uid == Cardinality(DOMAIN users) + 1
  IN  /\ q.op = "signup" /\ q.pc = "saveUser"
      /\ IF email \in DOMAIN users
           THEN /\ resp' = [NoResp EXCEPT !.op = "signup", !.status = "Server",
                                          !.email = email,
                                          !.startedAt = q.startedAt,
                                          !.preUser = UserOf(email)]
                /\ reqs' = [reqs EXCEPT ![r] = IdleReq]
                /\ UNCHANGED <<users, gens>>
           ELSE /\ users' = users @@ (email :> [q.snap EXCEPT !.id = uid])
                /\ gens' = gens @@ (email :> <<q.pw>>)
                /\ reqs' = [reqs EXCEPT ![r] =
                      [q EXCEPT !.pc = "createToken", !.snap = users'[email]]]
                /\ UNCHANGED resp
      /\ UNCHANGED <<now, ledger, nextTid, issued, consumed, env, clientVars>>

\* the token pair, the verification token and tokenModel.create
SignupCreateToken(r) ==
  LET q == reqs[r]
      user == q.snap
      token == generateToken(user.id, user.email, now)
      refreshToken == generateRefreshToken(user.id, user.email, now)
      verifyToken == JwtSign(user.id, user.email, JWT_SECRET, VerifyTTL, now)
  IN  /\ q.op = "signup" /\ q.pc = "createToken"
      /\ ledger' = ledger \cup
            {NewEntry(nextTid, verifyToken, "email-verification", user.id,
                      now, VerifyTTL)}
      /\ nextTid' = nextTid + 1
      /\ issued' = Mint(Mint(Mint(issued, token, "access"),
                              refreshToken, "refresh"),
                         verifyToken, "email-verification")
      /\ resp' = [NoResp EXCEPT !.op = "signup", !.status = "ok",
                                !.email = user.email, !.token = token,
                                !.refreshToken = refreshToken,
                                !.user = userResponse(user),
                                !.startedAt = q.startedAt, !.created = TRUE]
      /\ reqs' = [reqs EXCEPT ![r] = IdleReq]
      /\ UNCHANGED <<now, users, consumed, gens, env, clientVars>>

\* --------------------------------------------------------- forgotPassword
\* userModel.findOne({ email: raw }) without the toLowerCase()
ForgotFindUser_CaseSensitive(raw) == UserOf(raw)

\* userModel.findOne({ email: email.toLowerCase() })
ForgotFindUser(raw) == UserOf(Lower(raw))

GenericMessage ==
  "If an account exists with this email, a password reset link has been sent."

\* sent: whether emailService.sendTemplatedEmail returned rather than threw
forgotPassword(raw, sent, cap) ==
  LET email == Lower(raw)
      user == ForgotFindUser(raw)
      call == [NoResp EXCEPT !.op = "forgotPassword", !.email = email,
                             !.raw = raw, !.startedAt = now]
  IN  /\ nextTid <= cap
      /\ IF user = NoUser
           THEN /\ resp' = [call EXCEPT !.status = "ok",
                                        !.message = GenericMessage]
                /\ UNCHANGED <<ledger, nextTid, issued>>
           ELSE LET resetToken == JwtSign(user.id, user.email, JWT_SECRET,
                                          ResetTTL, now)
                IN  /\ ledger' = ledger \cup
                          {NewEntry(nextTid, resetToken, "password-reset",
                                    user.id, now, ResetTTL)}
                    /\ nextTid' = nextTid + 1
                    /\ issued' = Mint(issued, resetToken, "password-reset")
                    /\ resp' = IF sent
                          THEN [call EXCEPT !.status = "ok",
                                            !.message = GenericMessage,
                                            !.created = TRUE]
                          ELSE [call EXCEPT !.status = "Server",
                                            !.message = "Failed to send reset password email",
                                            !.created = TRUE]
      /\ UNCHANGED <<now, users, consumed, gens, reqs, env, clientVars>>

\* ---------------------------------------------------------- resetPassword
\* jwt.verify, then the ledger lookup
ResetFindToken(r, tok, pw) ==
  LET fresh == Arrive("resetPassword", tok, pw)
      found == FindTokens(tok, "password-reset")
  IN  /\ Free(r)
      /\ IF ~JwtVerify(tok, JWT_SECRET, now) \/ found = {}
           THEN /\ resp' = Reply(fresh, "Authentication")
                /\ UNCHANGED reqs
           ELSE /\ \E e \in found :
                     reqs' = [reqs EXCEPT ![r] =
                        [fresh EXCEPT !.pc = "findUser", !.rec = e.id,
                                      !.recExpiresAt = e.expiresAt]]
                /\ resp' = NoResp
      /\ UNCHANGED <<now, users, ledger, nextTid, issued, consumed, gens, env, clientVars>>

\* the ledger expiry check, the user lookup and the history comparison
ResetFindUser(r) ==
  LET q == reqs[r]
      failure ==
        IF q.recExpiresAt < now THEN "Authentication"
        ELSE IF q.token.email \notin DOMAIN users THEN "NotFound"
        ELSE IF PasswordReused(users[q.token.email], q.pw) THEN "Validation"
        ELSE ""
  IN  /\ q.op = "resetPassword" /\ q.pc = "findUser"
      /\ IF failure # ""
           THEN /\ resp' = Reply([q EXCEPT !.prior = PriorOf(q.token.email)],
                                 failure)
                /\ reqs' = [reqs EXCEPT ![r] = IdleReq]
           ELSE /\ reqs' = [reqs EXCEPT ![r] =
                      [q EXCEPT !.pc = "saveUser", !.snap = users[q.token.email],
                                !.prior = PriorOf(q.token.email)]]
                /\ UNCHANGED resp
      /\ UNCHANGED <<now, users, ledger, nextTid, issued, consumed, gens, env, clientVars>>

\* bcrypt.hash and user.save()
ResetSaveUser(r, salt) ==
  LET q == reqs[r]
      email == q.snap.email
  IN  /\ q.op = "resetPassword" /\ q.pc = "saveUser"
      /\ users' = [users EXCEPT ![email] =
                      SavedUser(users[email], q.snap, Hash(q.pw, salt))]
      /\ gens' = [gens EXCEPT ![email] = Append(@, q.pw)]
      /\ reqs' = [reqs EXCEPT ![r].pc = "saveToken"]
      /\ UNCHANGED <<now, ledger, nextTid, issued, consumed, resp, env, clientVars>>

\* tokenRecord.save(), then the response
SaveToken(r) ==
  LET q == reqs[r]
  IN  /\ q.pc = "saveToken"
      /\ IF \E e \in ledger : e.id = q.rec
           THEN /\ ledger' = MarkUsed(ledger, q.rec, now)
                /\ consumed' = Consume(consumed, q.token)
                /\ resp' = Reply(q, "ok")
           ELSE /\ resp' = Reply(q, "ServerError")
                /\ UNCHANGED <<ledger, consumed>>
      /\ reqs' = [reqs EXCEPT ![r] = IdleReq]
      /\ UNCHANGED <<now, users, nextTid, issued, gens, env, clientVars>>

ResetSaveToken(r) == reqs[r].op = "resetPassword" /\ SaveToken(r)

\* ---------------------------------------------------------- verifyAccount
VerifyFindToken(r, tok) ==
  LET fresh == Arrive("verifyAccount", tok, "")
      found == FindTokens(tok, "email-verification")
  IN  /\ Free(r)
      /\ IF ~JwtVerify(tok, JWT_SECRET, now) \/ found = {}
           THEN /\ resp' = Reply(fresh, "Authentication")
                /\ UNCHANGED reqs
           ELSE /\ \E e \in found :
                     reqs' = [reqs EXCEPT ![r] =
                        [fresh EXCEPT !.pc = "findUser", !.rec = e.id,
                                      !.recExpiresAt = e.expiresAt]]
                /\ resp' = NoResp
      /\ UNCHANGED <<now, users, ledger, nextTid, issued, consumed, gens, env, clientVars>>

AlreadyVerified == "Account is already verified"

\* the ledger expiry check, the user lookup and the already-verified return
VerifyFindUser(r) ==
  LET q == reqs[r]
      outcome ==
        IF q.recExpiresAt < now THEN "Authentication"
        ELSE IF q.token.email \notin DOMAIN users THEN "NotFound"
        ELSE IF users[q.token.email].isVerified THEN "ok"
        ELSE ""
  IN  /\ q.op = "verifyAccount" /\ q.pc = "findUser"
      /\ IF outcome # ""
           THEN /\ resp' = [Reply(q, outcome) EXCEPT !.message =
                              IF outcome = "ok" THEN AlreadyVerified ELSE ""]
                /\ reqs' = [reqs EXCEPT ![r] = IdleReq]
           ELSE /\ reqs' = [reqs EXCEPT ![r] =
                      [q EXCEPT !.pc = "saveUser", !.snap = users[q.token.email]]]
                /\ UNCHANGED resp
      /\ consumed' = IF outcome = "ok" THEN Consume(consumed, q.token)
                     ELSE consumed
      /\ UNCHANGED <<now, users, ledger, nextTid, issued, gens, env, clientVars>>

\* an update that flips the flag instead of setting it
Verified_Toggle(u) == [u EXCEPT !.isVerified = ~u.isVerified]

\* { $set: { isVerified: true } }
Verified(u) == [u EXCEPT !.isVerified = TRUE]

\* userModel.updateOne({_id}, {$set: {isVerified: true}})
VerifyUpdateUser(r) ==
  LET q == reqs[r]
  IN  /\ q.op = "verifyAccount" /\ q.pc = "saveUser"
      /\ users' = [users EXCEPT ![q.snap.email] = Verified(@)]
      /\ reqs' = [reqs EXCEPT ![r].pc = "saveToken"]
      /\ UNCHANGED <<now, ledger, nextTid, issued, consumed, gens, resp, env, clientVars>>

VerifySaveToken(r) == reqs[r].op = "verifyAccount" /\ SaveToken(r)

\* ------------------------------------------------- the sequential server
\* ------------------------------------------------------------------ signin
signin(raw, pw) ==
  LET email == Lower(raw)
      user == UserOf(email)
      token == generateToken(user.id, user.email, now)
      refreshToken == generateRefreshToken(user.id, user.email, now)
  IN  /\ IF email \notin DOMAIN users \/ ~Compare(pw, user.password)
           THEN /\ resp' = [NoResp EXCEPT !.op = "signin", !.email = email,
                                          !.status = "Authentication"]
                /\ UNCHANGED issued
           ELSE /\ issued' = Mint(Mint(issued, token, "access"),
                                   refreshToken, "refresh")
                /\ resp' = [NoResp EXCEPT !.op = "signin", !.status = "ok",
                                          !.email = email, !.token = token,
                                          !.refreshToken = refreshToken]
      /\ UNCHANGED <<now, users, ledger, nextTid, consumed, gens, reqs, env, clientVars>>

\* ------------------------------------------------------------ refreshToken
\* the call before this one was a refreshToken that accepted tok
JustRefreshed(tok) ==
  resp.op = "refreshToken" /\ resp.status = "ok" /\ resp.arg = tok

RefreshAccepted_Once(tok, t) ==
  /\ JwtVerify(tok, JWT_REFRESH_SECRET, t)
  /\ ~JustRefreshed(tok)

\* the try block of refreshToken: nothing but the signature and the expiry
RefreshAccepted(tok, t) == JwtVerify(tok, JWT_REFRESH_SECRET, t)

refreshToken(tok) ==
  LET data == RefreshData(tok, now)
      call == [NoResp EXCEPT !.op = "refreshToken", !.arg = tok,
                             !.email = tok.email, !.startedAt = now,
                             !.replay = JustRefreshed(tok),
                             !.preUser = UserOf(tok.email),
                             !.preEntries = ledger]
  IN  /\ IF ~RefreshAccepted(tok, now)
           THEN /\ resp' = [call EXCEPT !.status = "Authentication"]
                /\ UNCHANGED issued
           ELSE /\ issued' = Mint(Mint(issued, data.token, "access"),
                                   data.refreshToken, "refresh")
                /\ resp' = [call EXCEPT !.status = "ok", !.token = data.token,
                                        !.refreshToken = data.refreshToken]
      /\ UNCHANGED <<now, users, ledger, nextTid, consumed, gens, reqs, env, clientVars>>

\* ------------------------------------------------------------ JwtAuthGuard
canActivate(tok) ==
  /\ resp' = [NoResp EXCEPT !.op = "canActivate", !.arg = tok,
                            !.email = tok.email, !.startedAt = now,
                            !.status = IF tok # NoToken /\ JwtVerify(tok, JWT_SECRET, now)
                                         THEN "ok" ELSE "Unauthorized"]
  /\ UNCHANGED <<now, users, ledger, nextTid, issued, consumed, gens, reqs, env, clientVars>>

\* ---------------------------------------------------- TokenCleanupService
RetentionWindow == 604800

\* a sweep that removes every entry whose expiry lies within the next hour
SweptExpired_HourEarly(l, t) == {e \in l : ~(e.expiresAt < t + 3600)}

\* deleteMany({ expiresAt: { $lt: new Date() } })
SweptExpired(l, t) == {e \in l : ~(e.expiresAt < t)}

\* deleteMany({ used: true, usedAt: { $lt: sevenDaysAgo } })
SweptUsed(l, t) == {e \in l : ~(e.used /\ e.usedAt < t - RetentionWindow)}

\* the daily sweep (the TTL index on expiresAt removes the same entries)
cleanupExpiredTokens ==
  /\ ledger' = SweptExpired(ledger, now)
  /\ UNCHANGED <<now, users, nextTid, issued, consumed, gens, reqs, resp, env, clientVars>>

\* the weekly sweep
cleanupUsedTokens ==
  /\ ledger' = SweptUsed(ledger, now)
  /\ UNCHANGED <<now, users, nextTid, issued, consumed, gens, reqs, resp, env, clientVars>>

\* the statuses resetPassword(tok, pw) can answer with at time t, one request
\* at a time, when the ledger holds l (findOne may return any matching entry)
ResetOutcomes(l, tok, pw, t) ==
  LET found == {e \in l : e.token = tok /\ e.type = "password-reset" /\ ~e.used}
  IN  IF ~JwtVerify(tok, JWT_SECRET, t) \/ found = {} THEN {"Authentication"}
      ELSE {IF e.expiresAt < t THEN "Authentication"
            ELSE IF tok.email \notin DOMAIN users THEN "NotFound"
            ELSE IF PasswordReused(users[tok.email], pw) THEN "Validation"
            ELSE "ok" : e \in found}

\* the statuses verifyAccount(tok) can answer with at time t
VerifyOutcomes(l, tok, t) ==
  LET found == {e \in l : e.token = tok /\ e.type = "email-verification" /\ ~e.used}
  IN  IF ~JwtVerify(tok, JWT_SECRET, t) \/ found = {} THEN {"Authentication"}
      ELSE {IF e.expiresAt < t THEN "Authentication"
            ELSE IF tok.email \notin DOMAIN users THEN "NotFound"
            ELSE "ok" : e \in found}

\* a week goes by
WeekPasses ==
  /\ now <= MaxTicks * TickStep
  /\ now' = now + RefreshTTL
  /\ UNCHANGED <<users, ledger, nextTid, issued, consumed, gens, reqs, resp, env, clientVars>>

\* what a client can present: a token the server handed out, or anything else
Presentable == DOMAIN issued \cup {Garbage}

\* one resetPassword/verifyAccount request at a time, one user, the clock
Next ==
  \/ Tick
  \/ \E raw \in SignupEmails, pw \in Passwords, salt \in Salts :
        signup(raw, pw, salt, MaxLedger)
  \/ \E raw \in RawEmails, sent \in BOOLEAN :
        forgotPassword(raw, sent, MaxLedger)
  \/ \E tok \in Presentable, pw \in Passwords : ResetFindToken(1, tok, pw)
  \/ ResetFindUser(1)
  \/ \E salt \in Salts : ResetSaveUser(1, salt)
  \/ ResetSaveToken(1)
  \/ \E tok \in Presentable : VerifyFindToken(1, tok)
  \/ VerifyFindUser(1)
  \/ VerifyUpdateUser(1)
  \/ VerifySaveToken(1)

Spec == Init /\ [][Next]_vars

\* ------------------------------------------------ access and refresh tokens
\* any environment validateEnv lets the server start with
InitTokens == InitWith({e \in Envs : validateEnv(e)})

NextTokens ==
  \/ Tick
  \/ WeekPasses
  \/ \E raw \in RawEmails, salt \in Salts : signup(raw, "pw1", salt, MaxLedger)
  \/ \E raw \in RawEmails, pw \in Passwords : signin(raw, pw)
  \/ \E tok \in Presentable \cup {NoToken} : refreshToken(tok)
  \/ \E tok \in Presentable \cup {NoToken} : canActivate(tok)

SpecTokens == InitTokens /\ [][NextTokens]_vars

\* ------------------------------------------------------------- the client
Outcomes == {"200", "401", "403", "404", "429", "500", "neterr", "timeout"}
RefreshOutcomes == {"served", "500", "neterr"}

NextClient ==
  \/ ClientTick
  \/ \E stored \in StoredCredentials, verified \in BOOLEAN :
        checkAuthStatus(stored, verified)
  \/ \E c \in CallIds : StartCall(c)
  \/ \E c \in CallIds : AwaitProactive(c)
  \/ \E c \in CallIds, outcome \in Outcomes : Respond(c, outcome)
  \/ \E c \in CallIds : Await401(c)
  \/ \E c \in CallIds : Sleep(c)
  \/ \E i \in DOMAIN refreshes, outcome \in RefreshOutcomes :
        RefreshRespond(i, outcome)
  \/ \E i \in DOMAIN refreshes : RefreshRetry(i)

SpecClient == Init /\ [][NextClient]_vars

\* the client with the device clock standing still: the answers are a
\* success, a 401 and a server error
LiveOutcomes == {"200", "401", "500"}

NextClientLive ==
  \/ \E stored \in StoredCredentials, verified \in BOOLEAN :
        checkAuthStatus(stored, verified)
  \/ \E c \in CallIds : StartCall(c)
  \/ \E c \in CallIds : AwaitProactive(c)
  \/ \E c \in CallIds, outcome \in LiveOutcomes : Respond(c, outcome)
  \/ \E c \in CallIds : Await401(c)
  \/ \E c \in CallIds : Sleep(c)
  \/ \E i \in DOMAIN refreshes, outcome \in RefreshOutcomes :
        RefreshRespond(i, outcome)
  \/ \E i \in DOMAIN refreshes : RefreshRetry(i)

\* the user signs out: dispatch(logout())
logout ==
  /\ client' = LogoutState(client)
  /\ UNCHANGED <<now, refreshes, calls, serverVars>>

\* the client with a user who may sign out at any moment
NextLogout ==
  \/ NextClientLive
  \/ logout

SpecLogout == Init /\ [][NextLogout]_vars

\* every fetch is raced against a timeout, so each request is answered or
\* fails; timers fire; the continuation of a settled promise runs
ClientFairness ==
  /\ \A c \in CallIds :
        /\ WF_vars(\E outcome \in LiveOutcomes : Respond(c, outcome))
        /\ WF_vars(AwaitProactive(c))
        /\ WF_vars(Await401(c))
        /\ WF_vars(Sleep(c))
  /\ \A i \in 1 .. MaxRefresh :
        /\ WF_vars(i \in DOMAIN refreshes /\
                     \E outcome \in RefreshOutcomes : RefreshRespond(i, outcome))
        /\ WF_vars(i \in DOMAIN refreshes /\ RefreshRetry(i))

SpecClientLive == Init /\ [][NextClientLive]_vars /\ ClientFairness

\* ------------------------------------------- a long run of password resets
\* one user, no clock: up to MaxResets reset tokens, requested while fewer than
\* MaxOutstanding earlier ones are still unused
Outstanding == {e \in ledger : e.type = "password-reset" /\ ~e.used}

NextHistory ==
  \/ \E pw \in HistoryPasswords, salt \in Salts :
        signup("a@x.com", pw, salt, MaxResets + 1)
  \/ /\ Cardinality(Outstanding) < MaxOutstanding
     /\ forgotPassword("a@x.com", TRUE, MaxResets + 1)
  \/ \E tok \in Presentable, pw \in HistoryPasswords : ResetFindToken(1, tok, pw)
  \/ ResetFindUser(1)
  \/ \E salt \in Salts : ResetSaveUser(1, salt)
  \/ ResetSaveToken(1)

SpecHistory == Init /\ [][NextHistory]_vars

\* ------------------------------------------------- two requests at a time
\* one user, one verification token and one reset token, each string unique
NextConc ==
  \/ \E pw \in Passwords, salt \in Salts : signup("a@x.com", pw, salt, 2)
  \/ forgotPassword("a@x.com", TRUE, 2)
  \/ \E r \in ReqIds, tok \in Presentable, pw \in Passwords :
        ResetFindToken(r, tok, pw)
  \/ \E r \in ReqIds : ResetFindUser(r)
  \/ \E r \in ReqIds, salt \in Salts : ResetSaveUser(r, salt)
  \/ \E r \in ReqIds : ResetSaveToken(r)
  \/ \E r \in ReqIds, tok \in Presentable : VerifyFindToken(r, tok)
  \/ \E r \in ReqIds : VerifyFindUser(r)
  \/ \E r \in ReqIds : VerifyUpdateUser(r)
  \/ \E r \in ReqIds : VerifySaveToken(r)

SpecConc == Init /\ [][NextConc]_vars

\* -------------------------------------------------- two signups at a time
NextSignup ==
  \/ Tick
  \/ \E r \in ReqIds, raw \in RawEmails, pw \in Passwords, salt \in Salts :
        SignupFindUser(r, raw, pw, salt)
  \/ \E r \in ReqIds : SignupSaveUser(r)
  \/ \E r \in ReqIds : SignupCreateToken(r)

SpecSignup == Init /\ [][NextSignup]_vars

\* ------------------------------------------- the server with its sweeps
NextSweep ==
  \/ Tick
  \/ WeekPasses
  \/ cleanupExpiredTokens
  \/ cleanupUsedTokens
  \/ \E pw \in Passwords, salt \in Salts : signup("a@x.com", pw, salt, MaxLedger)
  \/ forgotPassword("a@x.com", TRUE, MaxLedger)
  \/ \E tok \in Presentable, pw \in Passwords : ResetFindToken(1, tok, pw)
  \/ ResetFindUser(1)
  \/ \E salt \in Salts : ResetSaveUser(1, salt)
  \/ ResetSaveToken(1)
  \/ \E tok \in Presentable : VerifyFindToken(1, tok)
  \/ VerifyFindUser(1)
  \/ VerifyUpdateUser(1)
  \/ VerifySaveToken(1)

SpecSweep == Init /\ [][NextSweep]_vars

\* ----------------------------------------------------------------- claims
\* the request the last response answers could consume its token on arrival:
\* the signature verifies, the token has not expired, and the ledger holds an
\* unused, unexpired entry of the given type for it
Consumable(type) ==
  /\ JwtVerify(resp.arg, JWT_SECRET, resp.startedAt)
  /\ \E e \in resp.preEntries :
        e.type = type /\ ~e.used /\ ~(e.expiresAt < resp.startedAt)

\* the call the last response answers left its user and its token's ledger
\* entries as they were
LeftUnchanged ==
  /\ UserOf(resp.email) = resp.preUser
  /\ resp.preEntries \subseteq ledger

Recent5(prior) == LET recent == LastN(prior, 5) IN {recent[i] : i \in DOMAIN recent}

\* C1: a resetPassword/verifyAccount call that presents a token string an
\* earlier call succeeded with fails with Authentication.
C1_ReplayFails ==
  (resp.op \in {"resetPassword", "verifyAccount"} /\ resp.replay)
    => resp.status = "Authentication"

\* C2: of the requests that present one token, running concurrently, at most
\* one succeeds.
C2_OneSuccessPerToken ==
  \A tok \in DOMAIN consumed : consumed[tok] <= 1

\* C6: resetPassword with a consumable token and a new password among the
\* user's last 5 previous passwords fails with Validation and leaves the
\* user document and the token's ledger entry unchanged.
C6_RecentPasswordRejected ==
  (/\ resp.op = "resetPassword"
   /\ Consumable("password-reset")
   /\ resp.pw \in Recent5(resp.prior))
    => (resp.status = "Validation" /\ LeftUnchanged)

C6_Witness ==
  /\ resp.op = "resetPassword"
  /\ Consumable("password-reset")
  /\ Len(resp.prior) >= 5
  /\ resp.pw = resp.prior[Len(resp.prior) - 4]
  /\ resp.status = "Validation"

\* C7: resetPassword with a consumable token and the password that is six
\* generations old, which is not among the last 5 previous passwords, succeeds
\* and sets that password.
C7_SixthGenerationAccepted ==
  (/\ resp.op = "resetPassword"
   /\ Consumable("password-reset")
   /\ Len(resp.prior) >= 6
   /\ resp.pw = resp.prior[Len(resp.prior) - 5]
   /\ resp.pw \notin Recent5(resp.prior))
    => (resp.status = "ok" /\ Compare(resp.pw, UserOf(resp.email).password))

C7_Witness ==
  /\ resp.op = "resetPassword"
  /\ Len(resp.prior) >= 6
  /\ resp.pw = resp.prior[Len(resp.prior) - 5]
  /\ resp.pw \notin Recent5(resp.prior)
  /\ resp.status = "ok"

\* C8: resetPassword with a ledgered token issued more than 1 hour before the
\* call fails with Authentication and leaves the user document unchanged.
C8_ExpiredTokenRejected ==
  (/\ resp.op = "resetPassword"
   /\ resp.preEntries # {}
   /\ resp.startedAt - resp.arg.iat > 3600)
    => (resp.status = "Authentication" /\ UserOf(resp.email) = resp.preUser)

C8_Witness ==
  /\ resp.op = "resetPassword"
  /\ \E e \in resp.preEntries : e.type = "password-reset" /\ ~e.used
  /\ resp.startedAt - resp.arg.iat > 3600
  /\ resp.status = "Authentication"

\* ---------------------------------------------------------------- tokens
KindsOf(tok) == IF tok \in DOMAIN issued THEN issued[tok] ELSE {}

\* C9: a token minted as an access token is never accepted by refreshToken and
\* a token minted as a refresh token is never accepted by the bearer-token
\* guard; each of the two accepts only tokens signed with its own secret.
C9_NotInterchangeable ==
  /\ (resp.op = "refreshToken" /\ "access" \in KindsOf(resp.arg))
        => resp.status = "Authentication"
  /\ (resp.op = "canActivate" /\ "refresh" \in KindsOf(resp.arg))
        => resp.status = "Unauthorized"
  /\ (resp.op = "refreshToken" /\ resp.status = "ok")
        => resp.arg.secret = JWT_REFRESH_SECRET
  /\ (resp.op = "canActivate" /\ resp.status = "ok")
        => resp.arg.secret = JWT_SECRET

C9_Witness ==
  /\ resp.op = "refreshToken"
  /\ "access" \in KindsOf(resp.arg)
  /\ resp.startedAt < resp.arg.exp
  /\ resp.status = "Authentication"

\* C10: a successful refreshToken returns an access token and a refresh token
\* that carry the userId and email of the presented token, signed at the time
\* of the call: each expires its own lifetime after the call, whatever the
\* expiry of the presented token.
C10_RefreshMintsNewPair ==
  (resp.op = "refreshToken" /\ resp.status = "ok") =>
    /\ resp.token.userId = resp.arg.userId
    /\ resp.token.email = resp.arg.email
    /\ resp.token.secret = JWT_SECRET
    /\ resp.token.iat = resp.startedAt
    /\ resp.token.exp = resp.startedAt + AccessTTL
    /\ resp.refreshToken.userId = resp.arg.userId
    /\ resp.refreshToken.email = resp.arg.email
    /\ resp.refreshToken.secret = JWT_REFRESH_SECRET
    /\ resp.refreshToken.iat = resp.startedAt
    /\ resp.refreshToken.exp = resp.startedAt + RefreshTTL
    /\ {resp.token, resp.refreshToken} \subseteq DOMAIN issued

C10_Witness ==
  /\ resp.op = "refreshToken"
  /\ resp.status = "ok"
  /\ resp.arg.iat < resp.startedAt
  /\ resp.refreshToken # resp.arg
  /\ resp.arg.userId = 2

\* ---------------------------------------------------------------- client
PendingRefreshes == {i \in DOMAIN refreshes : refreshes[i].state = "pending"}

Awaiting(i) ==
  {c \in CallIds : /\ calls[c].pc \in {"awaitProactive", "await401"}
                   /\ calls[c].promise = i}

LoggedOut(cl) ==
  /\ cl.user = "none"
  /\ cl.token = NoToken
  /\ cl.refreshToken = NoToken
  /\ ~cl.isAuthenticated
  /\ cl.storage = EmptyStorage

\* C3 (as the code has it): at most one refresh is in progress at any time and
\* every call that asks for a refresh meanwhile awaits that same promise; the
\* one refresh sends its request once, and again only after a network error or
\* 5xx answer, at most retries more times.
C3_SingleFlight ==
  /\ Cardinality(PendingRefreshes) <= 1
  /\ \A i \in PendingRefreshes :
        client.isRefreshing /\ client.refreshPromise = i
  /\ \A c \in CallIds :
        calls[c].pc \in {"awaitProactive", "await401"} =>
          /\ calls[c].promise \in DOMAIN refreshes
          /\ c \in refreshes[calls[c].promise].waiters
  /\ \A i \in DOMAIN refreshes :
        LET e == refreshes[i]
        IN  /\ e.sent <= retries + 1
            /\ e.pc = "fetch" => e.sent = e.attempt + 1
            /\ e.pc = "sleep" => e.sent = e.attempt

\* C3 (as stated): when two or more calls await one refresh, exactly one
\* refresh-token request is sent to the server.
C3_ExactlyOneRefreshRequest ==
  \A i \in DOMAIN refreshes :
    Cardinality(refreshes[i].waiters) >= 2 => refreshes[i].sent = 1

C3_Witness ==
  \E i \in PendingRefreshes :
    /\ Cardinality(Awaiting(i)) >= 2
    /\ \A c \in Awaiting(i) : calls[c].pc = "awaitProactive"
    /\ refreshes[i].sent = 1

\* C4: in one apiRequest call a 401 starts at most one refresh and one retry;
\* the retry runs with skipRefresh, and a 401 answer to the retry ends the
\* call with a failure, with no further refresh and no further attempt.
C4_OneRefreshAndRetry ==
  \A c \in CallIds :
    LET q == calls[c]
    IN  /\ q.n401 <= 1
        /\ q.nRetry <= 1
        /\ q.nRetry = 1 => q.skipRefresh
        /\ (q.skipRefresh /\ q.last401) =>
              /\ q.pc = "done"
              /\ q.result = "http401"
              /\ q.n401 = 1
              /\ q.nRetry = 1

C4_Witness ==
  \E c \in CallIds :
    /\ calls[c].skipRefresh
    /\ calls[c].last401
    /\ calls[c].pc = "done"
    /\ calls[c].result # "ok"

\* C5: every failed refresh attempt (no refresh token, refresh token expired
\* locally, refresh request not fulfilled) leaves the client logged out with
\* its storage cleared and resolves to no token; nothing loops: a refresh
\* sends at most retries + 1 requests, and a call asks for a refresh at most
\* once per attempt of its retry loop and once more after a 401.
C5_FailedRefreshLogsOut ==
  /\ \A i \in DOMAIN refreshes :
        LET e == refreshes[i]
        IN  /\ e.failure # "" =>
                  /\ LoggedOut(e.after)
                  /\ e.state = "resolved"
                  /\ e.value = NoToken
            /\ (e.state = "resolved" /\ e.value = NoToken) => e.failure # ""
            /\ e.sent <= retries + 1
  /\ \A c \in CallIds : calls[c].nRefresh <= retries + 2

C5_Witness ==
  \E i \in DOMAIN refreshes :
    /\ refreshes[i].failure = "rejected"
    /\ refreshes[i].sent = 1
    /\ LoggedOut(client)
    /\ \E c \in CallIds : calls[c].promise = i /\ calls[c].pc = "done"

\* C11: refreshToken leaves the user records and the ledger as they were, and
\* a refresh token that the refreshToken call before accepted (and issued a
\* newer pair from) is accepted again when presented before its expiry, as
\* is every token the server ever handed out as a refresh token.
C11_RefreshTokenReusable ==
  resp.op = "refreshToken" =>
    /\ UserOf(resp.email) = resp.preUser
    /\ ledger = resp.preEntries
    /\ (resp.replay /\ resp.startedAt < resp.arg.exp) => resp.status = "ok"
    /\ ("refresh" \in KindsOf(resp.arg) /\ resp.startedAt < resp.arg.exp)
          => resp.status = "ok"

C11_Witness ==
  /\ resp.op = "refreshToken"
  /\ resp.replay
  /\ resp.arg.iat < resp.startedAt
  /\ resp.status = "ok"
  /\ \E t \in {k * TickStep : k \in 0 .. MaxTicks} :
        /\ t < resp.startedAt
        /\ RefreshData(resp.arg, t).refreshToken \in DOMAIN issued
        /\ RefreshData(resp.arg, t).refreshToken # resp.arg

\* C12: a signup whose email, compared without case, is that of a user already
\* in the collection when the call ends, and which did not create that user,
\* is answered with Conflict.
C12_SecondSignupConflict ==
  (resp.op = "signup" /\ resp.email \in DOMAIN users /\ ~resp.created)
     => resp.status = "Conflict"

\* what a successful signup leaves behind, as of the state it ends in
SignupPost ==
  LET email == resp.email
      user == UserOf(email)
      entries == {e \in ledger : e.userId = user.id}
  IN  /\ email = Lower(resp.raw)
      /\ email \in DOMAIN users
      /\ user.email = email
      /\ ~user.isVerified
      /\ Len(user.passwordHistory) = 1
      /\ user.passwordHistory[1] = user.password
      /\ Compare(resp.pw, user.password)
      /\ Cardinality(entries) = 1
      /\ \A e \in entries :
            /\ e.type = "email-verification"
            /\ ~e.used
            /\ e.expiresAt = resp.startedAt + 24 * 3600
      /\ resp.token.userId = user.id /\ resp.token.email = email
      /\ resp.refreshToken.userId = user.id
      /\ resp.refreshToken.email = email
      /\ JwtVerify(resp.token, JWT_SECRET, resp.startedAt)
      /\ JwtVerify(resp.refreshToken, JWT_REFRESH_SECRET, resp.startedAt)
      /\ resp.user.id = user.id /\ resp.user.email = email
      /\ DOMAIN resp.user \cap {"password", "passwordHistory"} = {}

\* C13: every step that answers a signup with success ends in a state where
\* the new user is stored under the lowercased email, unverified, with a
\* password history of exactly the initial hash, where the ledger holds exactly
\* one entry for that user, an unused email-verification entry expiring 24
\* hours later, where the returned access and refresh tokens carry the new
\* user's id and email, and where the user object of the response has neither
\* a password nor a password history.
C13_SignupEffects ==
  [][(resp' # resp /\ resp'.op = "signup" /\ resp'.status = "ok")
        => SignupPost']_vars

C13_Witness ==
  /\ resp.op = "signup" /\ resp.status = "ok"
  /\ resp.raw = "A@x.com"
  /\ SignupPost

\* a step that ends a forgotPassword call
ForgotStep ==
  resp'.op = "forgotPassword" /\ (resp' # resp \/ nextTid' # nextTid)

\* the ledger entries a step adds
NewEntries == ledger' \ ledger

\* a forgotPassword call adds a ledger entry exactly when its email, compared
\* without case, is registered: one unused password-reset entry for that
\* user, expiring one hour later
ForgotEntryIffUser ==
  LET registered == Lower(resp'.raw) \in DOMAIN users
  IN  /\ registered <=> NewEntries # {}
      /\ Cardinality(NewEntries) <= 1
      /\ \A e \in NewEntries :
            /\ e.type = "password-reset"
            /\ ~e.used
            /\ e.userId = users[Lower(resp'.raw)].id
            /\ e.expiresAt = resp'.startedAt + 3600
            /\ JwtVerify(e.token, JWT_SECRET, resp'.startedAt)
            /\ e.token.exp = e.expiresAt

VerifyingWith(r, m) ==
  LET q == reqs[r]
  IN  /\ q.op = "verifyAccount" /\ q.pc = "saveUser"
      /\ q.token.email = m
      /\ q.token.userId = users[m].id
      /\ JwtVerify(q.token, JWT_SECRET, q.startedAt)
      /\ \E e \in q.preEntries :
            /\ e.type = "email-verification"
            /\ ~e.used
            /\ ~(e.expiresAt < q.startedAt)
            /\ e.userId = users[m].id

\* request r is a verifyAccount call that passed the token checks and now
\* finds its user already verified
FindsVerified(r) ==
  LET q == reqs[r]
  IN  /\ q.op = "verifyAccount" /\ q.pc = "findUser"
      /\ reqs'[r].pc = "idle"
      /\ ~(q.recExpiresAt < now)
      /\ q.token.email \in DOMAIN users
      /\ users[q.token.email].isVerified

\* C15: a user record is created with isVerified false; isVerified turns true
\* only in the update of a verifyAccount call that presented an unused,
\* unexpired email-verification token of that user; once true it stays true;
\* and a verifyAccount call that passes the token checks and finds its user
\* already verified answers success and leaves the user records as they are.
C15_VerifiedOnlyByVerifyAccount ==
  [][/\ \A m \in DOMAIN users' :
          /\ m \notin DOMAIN users => ~users'[m].isVerified
          /\ (m \in DOMAIN users /\ users[m].isVerified) => users'[m].isVerified
          /\ (m \in DOMAIN users /\ ~users[m].isVerified /\ users'[m].isVerified)
                => \E r \in ReqIds : VerifyingWith(r, m)
     /\ \A r \in ReqIds :
          FindsVerified(r) =>
            /\ resp'.op = "verifyAccount" /\ resp'.status = "ok"
            /\ users' = users]_vars

\* a verifyAccount call has verified the user and is about to mark its token
\* used, and a second call, which arrived before, got the already-verified
\* success
C15_Witness ==
  /\ resp.op = "verifyAccount" /\ resp.status = "ok"
  /\ resp.message = AlreadyVerified
  /\ ~resp.preUser.isVerified
  /\ users[resp.email].isVerified
  /\ \E r \in ReqIds :
        /\ reqs[r].op = "verifyAccount" /\ reqs[r].pc = "saveToken"
        /\ reqs[r].token.email = resp.email

\* C20: once a verifyAccount call has answered success, be it the verified or
\* the already-verified answer, every email-verification ledger entry of the
\* token it presented is marked used and carries the time it was used.
C20_SuccessConsumesToken ==
  (resp.op = "verifyAccount" /\ resp.status = "ok") =>
     \A e \in ledger :
        (e.token = resp.arg /\ e.type = "email-verification")
           => (e.used /\ e.usedAt >= 0)

\* request r writes the user of its resetPassword call in this step
ResetSaves(r) ==
  /\ reqs[r].op = "resetPassword" /\ reqs[r].pc = "saveUser"
  /\ reqs'[r].pc = "saveToken"

\* C19: after every step each stored user has between 1 and
\* passwordHistorySize (5) password history entries, and the write of a
\* resetPassword call leaves, as the last history entry, the hash that was
\* the user's current password just before that write.
C19_HistoryBounded ==
  [][/\ \A m \in DOMAIN users' :
          /\ Len(users'[m].passwordHistory) >= 1
          /\ Len(users'[m].passwordHistory) <= 5
     /\ \A r \in ReqIds :
          ResetSaves(r) =>
            LET m == reqs[r].snap.email
                h == users'[m].passwordHistory
            IN  h[Len(h)] = users[m].password]_vars

\* caller c begins an attempt of an authenticated call with default options
\* while an access token is stored
BeginsAttempt(c) ==
  /\ calls[c].pc \in {"idle", "sleep"}
  /\ calls'[c] # calls[c]
  /\ ~calls[c].skipRefresh
  /\ client.token # NoToken

\* the stored access token cannot be decoded, is expired, or expires within
\* 300 seconds
RefreshDue ==
  \/ client.token.secret \in {"none", "garbage"}
  \/ client.token.exp = 0
  \/ client.token.exp - now <= 300

\* C16: an attempt of an authenticated call (skipAuth and skipRefresh unset)
\* made while an access token is stored first awaits refreshAccessToken
\* exactly when that token cannot be decoded, is expired or expires within 300
\* seconds; a token with more than 300 seconds left is put in the request as it
\* is, and no refresh is started.
C16_ProactiveRefreshIffDue ==
  [][\A c \in CallIds :
        BeginsAttempt(c) =>
          /\ RefreshDue <=>
                /\ calls'[c].pc = "awaitProactive"
                /\ calls'[c].nRefresh = calls[c].nRefresh + 1
          /\ ~RefreshDue =>
                /\ calls'[c].pc = "fetch"
                /\ calls'[c].header = client.token
                /\ refreshes' = refreshes
                /\ client' = client]_vars

\* a call awaits the proactive refresh it began when its token had exactly 300
\* seconds left
C16_Witness ==
  \E c \in CallIds :
    /\ calls[c].pc = "awaitProactive"
    /\ ~calls[c].skipRefresh
    /\ calls[c].accessToken.exp - now = 300
    /\ calls[c].promise \in DOMAIN refreshes

\* the failures the retry loop goes round again for
Transient == {"neterr", "timeout", "500", "429"}

\* what the answer `outcome` to the request of caller c must lead to
AfterOutcome(c, outcome) ==
  LET q == calls[c]
      q2 == calls'[c]
  IN  IF outcome \in Transient
        THEN /\ IF q.attempt < 3
                  THEN /\ q2.pc = "sleep"
                       /\ q2.attempt = q.attempt + 1
                       /\ q2.delay = 1000 * 2 ^ (q2.attempt - 1)
                  ELSE /\ q2.pc = "done"
                       /\ q2.attempt = 3
                       /\ q2.result \in {"NETWORK", "TIMEOUT", "SERVER"}
             /\ refreshes' = refreshes
             /\ q2.nRefresh = q.nRefresh
             /\ client' = [client EXCEPT !.faults = @ + 1]
      ELSE IF outcome \in {"403", "404"} \/ (outcome = "401" /\ q.skipRefresh)
        THEN /\ q2.pc = "done"
             /\ q2.attempt = q.attempt
             /\ q2.result # "ok"
      ELSE TRUE

ApiResponses ==
  {"ok", "http401", "Token expired and refresh failed", "NETWORK", "TIMEOUT",
   "SERVER", "AUTHENTICATION", "CLIENT"}

\* C18: a call that has ended has resolved to a response, a failure being one
\* of the success: false responses; every call makes at most 3 retries in its
\* loop and at most one retry after a 401; and every call that was started
\* ends.
C18_AlwaysResolves ==
  /\ [](\A c \in CallIds :
          /\ calls[c].pc = "done" => calls[c].result \in ApiResponses
          /\ calls[c].attempt <= 3
          /\ calls[c].nRetry <= 1
          /\ calls[c].n401 <= 1)
  /\ \A c \in CallIds :
        (calls[c].pc \notin {"idle", "done"})
           ~> (calls[c].pc = "done")

\* a call has ended as a failure after its retry following a 401 ran out of
\* retries
C18_Witness ==
  \E c \in CallIds :
    /\ calls[c].pc = "done"
    /\ calls[c].nRetry = 1
    /\ calls[c].attempt = 3
    /\ calls[c].result = "SERVER"

\* the last response answers a call of operation op that presented a token
\* handed out as a purpose token of the given kind, with a valid signature,
\* for which the ledger held an unused, unexpired entry
PresentedLive(op, kind) ==
  /\ resp.op = op
  /\ kind \in KindsOf(resp.arg)
  /\ JwtVerify(resp.arg, JWT_SECRET, resp.startedAt)
  /\ \E e \in resp.preEntries :
        e.type = kind /\ ~e.used /\ ~(e.expiresAt < resp.startedAt)

\* C21: resetPassword presented with a token handed out as an
\* email-verification token, and verifyAccount presented with a token handed
\* out as a password-reset token, fail with Authentication and leave the user
\* and the token's ledger entries as they were.
C21_KindsNotInterchangeable ==
  /\ (resp.op = "resetPassword" /\ "email-verification" \in KindsOf(resp.arg))
        => (resp.status = "Authentication" /\ LeftUnchanged)
  /\ (resp.op = "verifyAccount" /\ "password-reset" \in KindsOf(resp.arg))
        => (resp.status = "Authentication" /\ LeftUnchanged)

\* resetPassword was refused a verification token that verifyAccount could
\* have consumed
C21_Witness ==
  /\ PresentedLive("resetPassword", "email-verification")
  /\ resp.status = "Authentication"
  /\ \E e \in ledger : e.token = resp.arg /\ ~e.used

\* C23: the bearer-token guard refuses every token that was handed out as an
\* email-verification or a password-reset token.
C23_GuardRefusesPurposeTokens ==
  (/\ resp.op = "canActivate"
   /\ KindsOf(resp.arg) \cap {"email-verification", "password-reset"} # {})
     => resp.status = "Unauthorized"

\* the times a later call can be made at
LaterTimes ==
  {now + k * TickStep : k \in 0 .. MaxTicks} \cup {now + RefreshTTL}

\* C22: a step that removes ledger entries removes only entries whose
\* expiresAt has passed or that are used with usedAt more than 7 days ago,
\* removes no unused entry that has not expired, and leaves the statuses that
\* a resetPassword or verifyAccount call made now or later can answer with,
\* for every token and password, as they were.
C22_SweepsChangeNoOutcome ==
  [][ledger' # ledger /\ ledger' \subseteq ledger =>
        /\ \A e \in ledger \ ledger' :
              \/ e.expiresAt < now
              \/ e.used /\ e.usedAt < now - 7 * 86400
        /\ \A e \in ledger : (~e.used /\ ~(e.expiresAt < now)) => e \in ledger'
        /\ \A tok \in Presentable, t \in LaterTimes :
              /\ VerifyOutcomes(ledger', tok, t) = VerifyOutcomes(ledger, tok, t)
              /\ \A pw \in Passwords :
                    ResetOutcomes(ledger', tok, pw, t)
                       = ResetOutcomes(ledger, tok, pw, t)]_vars

\* a sweep has removed entries, an unused unexpired entry is still there, and
\* the last call consumed its token
C22_Witness ==
  /\ Cardinality(ledger) < nextTid - 1
  /\ \E e \in ledger : ~e.used /\ ~(e.expiresAt < now)
  /\ resp.status = "ok" /\ resp.op \in {"resetPassword", "verifyAccount"}

\* C24: a resetPassword call whose new password is the password the user had
\* when the call was made does not succeed.
C24_CurrentPasswordRejected ==
  (/\ resp.op = "resetPassword"
   /\ resp.preUser # NoUser
   /\ Compare(resp.pw, resp.preUser.password))
     => resp.status # "ok"

\* C25: no two ledger entries hold the same token string with the same type.
C25_TokenStringsDistinct ==
  \A e1 \in ledger, e2 \in ledger :
     (e1.token = e2.token /\ e1.type = e2.type) => e1.id = e2.id

\* C26: whenever isAuthenticated is false, the client state holds no access
\* token and no refresh token, and the storage holds no access token.
C26_SignedOutHoldsNoTokens ==
  ~client.isAuthenticated =>
     /\ client.token = NoToken
     /\ client.refreshToken = NoToken
     /\ client.storage.token = NoToken

\* C27: a call whose awaited proactive refresh has failed ends without sending
\* its request, and no request with an Authorization header is sent in a step
\* after which the client holds no access token.
C27_NoRequestAfterFailedRefresh ==
  [][\A c \in CallIds :
        /\ (/\ calls[c].pc = "awaitProactive"
            /\ calls'[c] # calls[c]
            /\ refreshes[calls[c].promise].value = NoToken)
              => calls'[c].pc = "done"
        /\ (/\ calls[c].pc # "fetch"
            /\ calls'[c].pc = "fetch"
            /\ calls'[c].header # NoToken)
              => client'.token # NoToken]_vars

\* C28: a refresh that failed only because its request met a network error, a
\* timeout or a 5xx answer on every attempt leaves the client holding the
\* refresh token it presented, in its state and in its storage.
C28_UnavailableKeepsCredentials ==
  \A i \in DOMAIN refreshes :
     refreshes[i].failure = "unavailable" =>
        /\ refreshes[i].after.refreshToken = refreshes[i].presented
        /\ refreshes[i].after.storage.refreshToken = refreshes[i].presented

\* C29: when a resetPassword call that found its ledger entry ends, with
\* success or with an error, it has written the user's new password exactly
\* if the entry it found is in the ledger marked used.
C29_ResetWritesAllOrNothing ==
  [][\A r \in ReqIds :
        (/\ reqs[r].op = "resetPassword"
         /\ reqs[r].pc # "idle"
         /\ reqs'[r].pc = "idle")
           => (reqs[r].pc = "saveToken"
                 <=> \E e \in ledger' : e.id = reqs[r].rec /\ e.used)]_vars

\* C30: a resetPassword call that presents a password-reset token issued
\* before another password-reset token of the same user was consumed, and
\* made after that, fails with Authentication.
C30_EarlierTokensRevoked ==
  (/\ resp.op = "resetPassword"
   /\ "password-reset" \in KindsOf(resp.arg)
   /\ \E e \in ledger :
         /\ e.type = "password-reset" /\ e.used
         /\ e.userId = resp.arg.userId
         /\ e.token # resp.arg
         /\ resp.arg.iat <= e.usedAt
         /\ e.usedAt <= resp.startedAt)
     => resp.status = "Authentication"
====
